---------------------------- MODULE Spec2Model ----------------------------
(***************************************************************************)
(* Model of netsort.go: N server processes redistribute fixed-size records *)
(* by key range over a full mesh of TCP connections, wait on a termination *)
(* barrier, then sort and write their shard.                               *)
(***************************************************************************)
EXTENDS Integers, Sequences, FiniteSets, TLC

(***************************************************************************)
(* Bounds of the model.                                                    *)
(***************************************************************************)
\* Records in all input shards of one run, taken together.
MaxRecs == 2
\* Injected I/O errors per run (errors that follow from a peer's death are free).
MaxFaults == 1
\* The largest cluster the partitioner is applied to.
MaxCluster == 513
\* Local records, and received records, of a merge and sort.
MaxSortLen == 2

\* The frames a connection holds between its writer and its reader.
StreamCap == 1

\* The nodes of the runs with a transport of finite capacity.
FlowCluster == 4

(***************************************************************************)
(* Program constants.                                                      *)
(***************************************************************************)
KeySize == 10
ValueSize == 90
FrameSize == 101
DataByte == 0
StreamCompleteByte == 1

RecordSize == KeySize + ValueSize

\* Cluster sizes of the runs explored.
ClusterSizes == {1, 2, 3}

\* The largest cluster explored with every thread of every node running.
FullCluster == 2

(***************************************************************************)
(* Byte sequences and records.                                             *)
(***************************************************************************)
Min(a, b) == IF a < b THEN a ELSE b

Zeros(n) == [i \in 1..n |-> 0]

\* type Record struct { Key [10]byte; Value [90]byte }
Record(k, v) == [Key |-> k, Value |-> v]

\* A key / value whose leading bytes are given and whose other bytes are zero.
KeyOf(b0, b1) == <<b0, b1>> \o Zeros(KeySize - 2)
ValueOf(b0) == <<b0>> \o Zeros(ValueSize - 1)

\* The records an input shard is made of in the runs explored: the keys
\* 0x10.., 0x40.. and 0x80.. with distinct values.
RecordPool ==
    { Record(KeyOf(16, 0), ValueOf(1)),
      Record(KeyOf(64, 255), ValueOf(2)),
      Record(KeyOf(128, 0), ValueOf(255)) }

RecordBytes(r) == r.Key \o r.Value

RECURSIVE FileOf(_)
\* The bytes of a shard file holding the records rs.
FileOf(rs) == IF rs = <<>> THEN <<>> ELSE RecordBytes(Head(rs)) \o FileOf(Tail(rs))

RECURSIVE RecordsOf(_)
\* The records of a file of whole records, and a trailing partial chunk as a
\* record of what is there.
RecordsOf(bs) ==
    IF bs = <<>> THEN <<>>
    ELSE IF Len(bs) < RecordSize
         THEN << Record(SubSeq(bs, 1, Min(KeySize, Len(bs))),
                        SubSeq(bs, KeySize + 1, Len(bs))) >>
         ELSE << Record(SubSeq(bs, 1, KeySize), SubSeq(bs, KeySize + 1, RecordSize)) >>
              \o RecordsOf(SubSeq(bs, RecordSize + 1, Len(bs)))

(***************************************************************************)
(* The partitioner: msb := int(math.Log2(float64(numServers))) and         *)
(* keyToServer := int(firstByte) >> (8 - msb).                             *)
(***************************************************************************)
RECURSIVE Log2Floor(_)
Log2Floor(n) == IF n < 2 THEN 0 ELSE 1 + Log2Floor(n \div 2)

RECURSIVE Pow2(_)
Pow2(e) == IF e <= 0 THEN 1 ELSE 2 * Pow2(e - 1)

\* The bit count rounded up, not down: ceil(log2(n)).
MsbCeil(n) == IF Pow2(Log2Floor(n)) = n THEN Log2Floor(n) ELSE Log2Floor(n) + 1

Msb(n) == Log2Floor(n)

\* A shift by a negative count is a run-time panic in Go.
ShiftPanics(msb) == 8 - msb < 0

\* The low bits of the byte in place of the top ones.
KeyToServerLow(firstByte, msb) == firstByte % Pow2(msb)

KeyToServer(firstByte, msb) == firstByte \div Pow2(8 - msb)

\* A dispatch loop that keeps every record.
RouteKeepAll(N, serverID, firstByte) == [kind |-> "own", to |-> serverID]

\* What the dispatch loop of node serverID, in a cluster of N nodes, does
\* with a record whose key starts with firstByte: it keeps the record
\* (keyToServer == serverID), writes its frame to node keyToServer, or
\* panics (a negative shift count; an index beyond serverConfig.Servers).
Route(N, serverID, firstByte) ==
    LET msb == Msb(N)
        keyToServer == KeyToServer(firstByte, msb)
    IN  IF ShiftPanics(msb) THEN [kind |-> "panic", to |-> -1]
        ELSE IF keyToServer = serverID THEN [kind |-> "own", to |-> keyToServer]
        ELSE IF keyToServer \notin 0 .. N - 1 THEN [kind |-> "panic", to |-> keyToServer]
        ELSE [kind |-> "send", to |-> keyToServer]

(***************************************************************************)
(* bytes.Compare and the sort of the merged records.  sort.Slice runs an   *)
(* insertion sort on slices of at most 12 elements, with the less function *)
(* of the call: bytes.Compare(records[i].Key, records[j].Key) <= 0.        *)
(***************************************************************************)
RECURSIVE BytesCompare(_, _)
BytesCompare(a, b) ==
    IF a = <<>> /\ b = <<>> THEN 0
    ELSE IF a = <<>> THEN -1
    ELSE IF b = <<>> THEN 1
    ELSE IF Head(a) < Head(b) THEN -1
    ELSE IF Head(a) > Head(b) THEN 1
    ELSE BytesCompare(Tail(a), Tail(b))

\* A comparison of the first key byte alone.
LessFirstByte(x, y) == x.Key[1] <= y.Key[1]

Less(x, y) == BytesCompare(x.Key, y.Key) <= 0

Swap(s, i, j) == [s EXCEPT ![i] = s[j], ![j] = s[i]]

RECURSIVE SiftLeft(_, _)
\* for j := i; j > a && less(j, j-1); j-- { swap(j, j-1) }
SiftLeft(s, j) ==
    IF j > 1 /\ Less(s[j], s[j - 1]) THEN SiftLeft(Swap(s, j, j - 1), j - 1) ELSE s

RECURSIVE InsertionSort(_, _)
\* for i := a + 1; i < b; i++ { ... }
InsertionSort(s, i) ==
    IF i > Len(s) THEN s ELSE InsertionSort(SiftLeft(s, i), i + 1)

SortSlice(s) == InsertionSort(s, 2)

\* records = append(records, ownRecords...); records = append(records,
\* receivedRecords...); sort.Slice(records, ...).
Merged(own, received) == SortSlice(own \o received)

(***************************************************************************)
(* Reading a file: Read(buf) returns the bytes that are left, at most      *)
(* len(buf) of them, and io.EOF when none is left.                         *)
(***************************************************************************)
FileRead(f, off, cnt) ==
    LET n == Min(cnt, Len(f) - off)
    IN  [n |-> n, eof |-> n = 0, bytes |-> SubSeq(f, off + 1, off + n)]

\* A fixed-size array that a read filled from its start.
Filled(bytes, size) == bytes \o Zeros(size - Len(bytes))

(***************************************************************************)
(* State.                                                                  *)
(***************************************************************************)
VARIABLES
    numServers,         \* var numServers int
    inputFile,          \* per node: the bytes of its input shard
    inOff,              \* per node: the read offset in the input shard
    pc,                 \* per node: where main is
    dialIdx,            \* per node: i of the dial loop
    connections,        \* per node: the keys of the map connections
    dialErr,            \* per node: err of the last net.Dial of connectToSocket
    termDone,           \* per node: peers the terminator loop has visited
    ownRecords,         \* per node: ownRecords
    backlog,            \* per node: dialed connections not yet accepted
    accPc,              \* per node: where acceptConnections is
    clientConnections,  \* per node: var clientConnections []net.Conn
    nodeChannels,       \* per node: var nodeChannels []chan Record
    recvData,           \* per node: per receiveData task, its data so far
    colPc,              \* per node: where collectReceivedData is
    colIdx,             \* per node: i of collectReceivedData
    receivedRecords,    \* per node: var receivedRecords []Record
    waitGroup,          \* per node: the counter of var waitGroup
    records,            \* per node: records of main
    outPos,             \* per node: index of the next record to write
    outputFile,         \* per node: the bytes of its output shard
    stream,             \* per ordered pair: bytes written and not yet read
    sent,               \* per ordered pair: every byte written so far
    faults,             \* injected I/O errors so far
    served,             \* the nodes whose accept loop, readers and collector run
    arg,                \* the input of a function applied on its own
    res                 \* its result

\* What a run never changes.
cfgVars == << numServers, inputFile, served, arg, res >>

\* The state of main, less pc.
mainVars == << inOff, dialIdx, connections, dialErr, termDone, ownRecords,
               records, outPos, outputFile >>

\* The state of the accept loop, the readers and the collector.
srvVars == << backlog, accPc, clientConnections, nodeChannels, recvData, colPc,
              colIdx, receivedRecords, waitGroup >>

netVars == << stream, sent >>

vars == << cfgVars, pc, mainVars, srvVars, netVars, faults >>

Nodes == 0 .. numServers - 1

Peers(n) == Nodes \ {n}

Pairs == { pq \in Nodes \X Nodes : pq[1] # pq[2] }

\* The process of node n is running: main has started and has neither
\* returned nor been ended by log.Fatalf.
Alive(n) == pc[n] \notin {"init", "done", "fatal"}

\* The process of node n is gone, and with it its sockets.
Gone(n) == pc[n] \in {"done", "fatal"}

\* net.Listen has succeeded and the listener is open.
Listening(n) == Alive(n)

\* The accept loop, the readers and the collector of node n can take a step.
Scheduled(n) == Alive(n) /\ n \in served


Upd(f, n, v) == [f EXCEPT ![n] = v]

Append2(f, p, q, bytes) == [f EXCEPT ![<<p, q>>] = @ \o bytes]

(***************************************************************************)
(* The initial states: a cluster of numServers nodes, not yet started, and *)
(* an input shard of whole records on each.                                *)
(***************************************************************************)
SeqsUpTo(k, pool) == UNION { [1..m -> pool] : m \in 0..k }

\* The records of the shards of a run of N nodes: the whole pool, and for a
\* cluster beyond FullCluster the one record of key 0x40.., which node 0 owns.
Pool(N) == IF N <= FullCluster THEN RecordPool ELSE { Record(KeyOf(64, 255), ValueOf(2)) }

\* The nodes whose accept loop, readers and collector are scheduled: all of
\* them, and in a cluster beyond FullCluster the first node alone or the last
\* node alone (the other nodes run main, and their kernels take connections
\* and bytes).
Served(N) == IF N <= FullCluster THEN { 0 .. N - 1 } ELSE { {0}, {N - 1} }

RECURSIVE TotalLen(_, _)
TotalLen(shards, n) == IF n < 0 THEN 0 ELSE Len(shards[n]) + TotalLen(shards, n - 1)

Shards(N) ==
    { sh \in [0 .. N - 1 -> SeqsUpTo(MaxRecs, Pool(N))] : TotalLen(sh, N - 1) <= MaxRecs }

InitRun(N, sh, sv) ==
    /\ numServers = N
    /\ served = sv
    /\ inputFile = [n \in 0 .. N - 1 |-> FileOf(sh[n])]
    /\ inOff = [n \in 0 .. N - 1 |-> 0]
    /\ pc = [n \in 0 .. N - 1 |-> "init"]
    /\ dialIdx = [n \in 0 .. N - 1 |-> 0]
    /\ connections = [n \in 0 .. N - 1 |-> {}]
    /\ dialErr = [n \in 0 .. N - 1 |-> FALSE]
    /\ termDone = [n \in 0 .. N - 1 |-> {}]
    /\ ownRecords = [n \in 0 .. N - 1 |-> <<>>]
    /\ backlog = [n \in 0 .. N - 1 |-> <<>>]
    /\ accPc = [n \in 0 .. N - 1 |-> "none"]
    /\ clientConnections = [n \in 0 .. N - 1 |-> <<>>]
    /\ nodeChannels = [n \in 0 .. N - 1 |-> <<>>]
    /\ recvData = [n \in 0 .. N - 1 |-> <<>>]
    /\ colPc = [n \in 0 .. N - 1 |-> "none"]
    /\ colIdx = [n \in 0 .. N - 1 |-> 0]
    /\ receivedRecords = [n \in 0 .. N - 1 |-> <<>>]
    /\ waitGroup = [n \in 0 .. N - 1 |-> 0]
    /\ records = [n \in 0 .. N - 1 |-> <<>>]
    /\ outPos = [n \in 0 .. N - 1 |-> 0]
    /\ outputFile = [n \in 0 .. N - 1 |-> <<>>]
    /\ stream = [pq \in { x \in (0 .. N - 1) \X (0 .. N - 1) : x[1] # x[2] } |-> <<>>]
    /\ sent = [pq \in { x \in (0 .. N - 1) \X (0 .. N - 1) : x[1] # x[2] } |-> <<>>]
    /\ faults = 0

Init ==
    /\ \E N \in ClusterSizes : \E sh \in Shards(N) : \E sv \in Served(N) : InitRun(N, sh, sv)
    /\ arg = <<>>
    /\ res = <<>>

(***************************************************************************)
(* main, up to the dial loop.                                              *)
(***************************************************************************)
\* The dial loop's `if i == serverID { continue }`.
SkipSelf(n, i) == IF i = n THEN i + 1 ELSE i

\* net.Listen, waitGroup.Add(1), go acceptConnections(listener), time.Sleep,
\* os.Open of the input, and the entry of the dial loop.
Start(n) ==
    /\ pc[n] = "init"
    /\ waitGroup' = Upd(waitGroup, n, waitGroup[n] + 1)
    /\ accPc' = Upd(accPc, n, "loop")
    /\ dialIdx' = Upd(dialIdx, n, SkipSelf(n, 0))
    /\ pc' = Upd(pc, n, IF SkipSelf(n, 0) < numServers THEN "dial" ELSE "read")
    /\ UNCHANGED << cfgVars, netVars, faults, inOff, connections, dialErr, termDone,
                    ownRecords, records, outPos, outputFile, backlog,
                    clientConnections, nodeChannels, recvData, colPc, colIdx,
                    receivedRecords >>

\* A dial that leaves two connections at the peer.
DialOKTwice(n) ==
    /\ pc[n] = "dial"
    /\ LET q == dialIdx[n]
           i == SkipSelf(n, q + 1)
       IN  /\ Listening(q)
           /\ connections' = Upd(connections, n, connections[n] \cup {q})
           /\ backlog' = Upd(backlog, q, backlog[q] \o << n, n >>)
           /\ dialIdx' = Upd(dialIdx, n, i)
           /\ pc' = Upd(pc, n, IF i < numServers THEN "dial" ELSE "read")
    /\ dialErr' = Upd(dialErr, n, FALSE)
    /\ UNCHANGED << cfgVars, netVars, faults, inOff, termDone, ownRecords,
                    records, outPos, outputFile, accPc, clientConnections,
                    nodeChannels, recvData, colPc, colIdx, receivedRecords, waitGroup >>

\* connectToSocket: net.Dial succeeds against a listening peer.
DialOK(n) ==
    /\ pc[n] = "dial"
    /\ LET q == dialIdx[n]
           i == SkipSelf(n, q + 1)
       IN  /\ Listening(q)
           /\ connections' = Upd(connections, n, connections[n] \cup {q})
           /\ backlog' = Upd(backlog, q, Append(backlog[q], n))
           /\ dialIdx' = Upd(dialIdx, n, i)
           /\ pc' = Upd(pc, n, IF i < numServers THEN "dial" ELSE "read")
    /\ dialErr' = Upd(dialErr, n, FALSE)
    /\ UNCHANGED << cfgVars, netVars, faults, inOff, termDone, ownRecords,
                    records, outPos, outputFile, accPc, clientConnections,
                    nodeChannels, recvData, colPc, colIdx, receivedRecords, waitGroup >>

\* A dial whose failure ends the process.
DialGiveUp(n) ==
    /\ pc[n] = "dial"
    /\ ~Listening(dialIdx[n])
    /\ dialErr' = Upd(dialErr, n, TRUE)
    /\ pc' = Upd(pc, n, "fatal")
    /\ UNCHANGED << cfgVars, srvVars, netVars, faults, inOff, dialIdx, connections,
                    termDone, ownRecords, records, outPos, outputFile >>

\* connectToSocket: net.Dial fails, the error is logged (not fatal), and the
\* loop sleeps and dials again.
DialRetry(n) ==
    /\ pc[n] = "dial"
    /\ ~Listening(dialIdx[n])
    /\ dialErr' = Upd(dialErr, n, TRUE)
    /\ UNCHANGED << cfgVars, pc, srvVars, netVars, faults, inOff, dialIdx, connections,
                    termDone, ownRecords, records, outPos, outputFile >>

(***************************************************************************)
(* main: the dispatch loop and the terminators.                            *)
(***************************************************************************)
\* A frame whose value is written before its key.
FrameValueFirst(ctl, key, value) == <<ctl>> \o value \o key

\* The three writes of a frame: the control byte, the key, the value.
Frame(ctl, key, value) == <<ctl>> \o key \o value

NextKey(n) == FileRead(inputFile[n], inOff[n], KeySize)

NextValue(n) == FileRead(inputFile[n], inOff[n] + NextKey(n).n, ValueSize)

\* One pass of the read loop that does not end it: read key and value,
\* compute the destination, keep the record or write its frame (after
\* dialing the destination if the map has no connection to it).
Dispatch(n) ==
    /\ pc[n] = "read"
    /\ ~NextKey(n).eof /\ ~NextValue(n).eof
    /\ LET key == Filled(NextKey(n).bytes, KeySize)
           value == Filled(NextValue(n).bytes, ValueSize)
           r == Route(numServers, n, key[1])
       IN  /\ inOff' = Upd(inOff, n, inOff[n] + NextKey(n).n + NextValue(n).n)
           /\ CASE r.kind = "panic" ->
                   /\ pc' = Upd(pc, n, "fatal")
                   /\ UNCHANGED << ownRecords, connections, backlog, netVars >>
                [] r.kind = "own" ->
                   /\ ownRecords' = Upd(ownRecords, n, Append(ownRecords[n], Record(key, value)))
                   /\ UNCHANGED << pc, connections, backlog, netVars >>
                [] r.kind = "send" ->
                   /\ r.to \in connections[n] \/ Listening(r.to)
                   /\ connections' = Upd(connections, n, connections[n] \cup {r.to})
                   /\ backlog' = IF r.to \in connections[n] THEN backlog
                                 ELSE Upd(backlog, r.to, Append(backlog[r.to], n))
                   /\ stream' = Append2(stream, n, r.to, Frame(DataByte, key, value))
                   /\ sent' = Append2(sent, n, r.to, Frame(DataByte, key, value))
                   /\ UNCHANGED << pc, ownRecords >>
    /\ UNCHANGED << cfgVars, faults, dialIdx, dialErr, termDone, records, outPos,
                    outputFile, accPc, clientConnections, nodeChannels, recvData,
                    colPc, colIdx, receivedRecords, waitGroup >>

\* A read loop that ends without the terminator loop after it.
ReadEOFNoTerminators(n) ==
    /\ pc[n] = "read"
    /\ NextKey(n).eof \/ NextValue(n).eof
    /\ pc' = Upd(pc, n, "wait")
    /\ UNCHANGED << cfgVars, mainVars, srvVars, netVars, faults >>

\* The read that returns io.EOF: break out of the read loop.
ReadEOF(n) ==
    /\ pc[n] = "read"
    /\ NextKey(n).eof \/ NextValue(n).eof
    /\ pc' = Upd(pc, n, IF connections[n] = {} THEN "wait" ELSE "term")
    /\ UNCHANGED << cfgVars, mainVars, srvVars, netVars, faults >>

\* for _, conn := range connections: the terminator frame (control byte 1,
\* a zero key, a zero value) on a connection the loop has not visited yet
\* (a map is ranged over in any order); after the last, inputFile.Close().
SendTerminator(n, q) ==
    /\ pc[n] = "term"
    /\ q \in connections[n] \ termDone[n]
    /\ stream' = Append2(stream, n, q, Frame(StreamCompleteByte, Zeros(KeySize), Zeros(ValueSize)))
    /\ sent' = Append2(sent, n, q, Frame(StreamCompleteByte, Zeros(KeySize), Zeros(ValueSize)))
    /\ termDone' = Upd(termDone, n, termDone[n] \cup {q})
    /\ pc' = Upd(pc, n, IF termDone[n] \cup {q} = connections[n] THEN "wait" ELSE "term")
    /\ UNCHANGED << cfgVars, srvVars, faults, inOff, dialIdx, connections, dialErr,
                    ownRecords, records, outPos, outputFile >>

(***************************************************************************)
(* The read loop on an input whose reads may be short: inputFile.Read      *)
(* returns at most `most` bytes, fewer than asked for when most is less    *)
(* than the size of the array.  The loop calls Read once for the key and   *)
(* once for the value.                                                     *)
(***************************************************************************)
KeyRead(n, most) == FileRead(inputFile[n], inOff[n], Min(KeySize, most))

ValueRead(n, got, most) == FileRead(inputFile[n], inOff[n] + got, Min(ValueSize, most))

\* One pass of the read loop that does not end it, with reads of at most
\* kmost and vmost bytes.
DispatchShort(n, kmost, vmost) ==
    /\ pc[n] = "read"
    /\ LET k == KeyRead(n, kmost)
           v == ValueRead(n, k.n, vmost)
           key == Filled(k.bytes, KeySize)
           value == Filled(v.bytes, ValueSize)
           r == Route(numServers, n, key[1])
       IN  /\ ~k.eof /\ ~v.eof
           /\ inOff' = Upd(inOff, n, inOff[n] + k.n + v.n)
           /\ CASE r.kind = "panic" ->
                   /\ pc' = Upd(pc, n, "fatal")
                   /\ UNCHANGED << ownRecords, connections, backlog, netVars >>
                [] r.kind = "own" ->
                   /\ ownRecords' = Upd(ownRecords, n, Append(ownRecords[n], Record(key, value)))
                   /\ UNCHANGED << pc, connections, backlog, netVars >>
                [] r.kind = "send" ->
                   /\ r.to \in connections[n] \/ Listening(r.to)
                   /\ connections' = Upd(connections, n, connections[n] \cup {r.to})
                   /\ backlog' = IF r.to \in connections[n] THEN backlog
                                 ELSE Upd(backlog, r.to, Append(backlog[r.to], n))
                   /\ stream' = Append2(stream, n, r.to, Frame(DataByte, key, value))
                   /\ sent' = Append2(sent, n, r.to, Frame(DataByte, key, value))
                   /\ UNCHANGED << pc, ownRecords >>
    /\ UNCHANGED << cfgVars, faults, dialIdx, dialErr, termDone, records, outPos,
                    outputFile, accPc, clientConnections, nodeChannels, recvData,
                    colPc, colIdx, receivedRecords, waitGroup >>

\* The read of the key, or after it that of the value, returns io.EOF.
ReadEOFShort(n, kmost) ==
    /\ pc[n] = "read"
    /\ KeyRead(n, kmost).eof \/ ValueRead(n, KeyRead(n, kmost).n, ValueSize).eof
    /\ pc' = Upd(pc, n, IF connections[n] = {} THEN "wait" ELSE "term")
    /\ UNCHANGED << cfgVars, mainVars, srvVars, netVars, faults >>

(***************************************************************************)
(* main: the barrier, the merge and the output.                            *)
(***************************************************************************)
\* A merge that does not wait for the collector.
MergeSortNoWait(n) ==
    /\ pc[n] = "wait"
    /\ records' = Upd(records, n, Merged(ownRecords[n], receivedRecords[n]))
    /\ outPos' = Upd(outPos, n, 1)
    /\ pc' = Upd(pc, n, "emit")
    /\ UNCHANGED << cfgVars, srvVars, netVars, faults, inOff, dialIdx, connections,
                    dialErr, termDone, ownRecords, outputFile >>

\* waitGroup.Wait() returns; records = ownRecords ++ receivedRecords;
\* sort.Slice; os.Create of the output.
MergeSort(n) ==
    /\ pc[n] = "wait"
    /\ waitGroup[n] = 0
    /\ records' = Upd(records, n, Merged(ownRecords[n], receivedRecords[n]))
    /\ outPos' = Upd(outPos, n, 1)
    /\ pc' = Upd(pc, n, "emit")
    /\ UNCHANGED << cfgVars, srvVars, netVars, faults, inOff, dialIdx, connections,
                    dialErr, termDone, ownRecords, outputFile >>

\* outputFile.Write(rec.Key) and outputFile.Write(rec.Value) of one record.
EmitRecord(n) ==
    /\ pc[n] = "emit"
    /\ outPos[n] <= Len(records[n])
    /\ outputFile' = Upd(outputFile, n,
                         outputFile[n] \o records[n][outPos[n]].Key
                                       \o records[n][outPos[n]].Value)
    /\ outPos' = Upd(outPos, n, outPos[n] + 1)
    /\ UNCHANGED << cfgVars, pc, srvVars, netVars, faults, inOff, dialIdx, connections,
                    dialErr, termDone, ownRecords, records >>

\* outputFile.Close() and the return of main: the process ends, and the
\* deferred Close calls run.
Exit(n) ==
    /\ pc[n] = "emit"
    /\ outPos[n] > Len(records[n])
    /\ pc' = Upd(pc, n, "done")
    /\ UNCHANGED << cfgVars, mainVars, srvVars, netVars, faults >>

(***************************************************************************)
(* acceptConnections, receiveData and collectReceivedData.                 *)
(***************************************************************************)
\* listener.Accept() returns a connection: register it, make its channel
\* and start its reader.
Accept(n) ==
    /\ Scheduled(n)
    /\ accPc[n] = "loop"
    /\ Len(clientConnections[n]) # numServers - 1
    /\ backlog[n] # <<>>
    /\ clientConnections' = Upd(clientConnections, n, Append(clientConnections[n], Head(backlog[n])))
    /\ nodeChannels' = Upd(nodeChannels, n, Append(nodeChannels[n], [closed |-> FALSE, val |-> <<>>]))
    /\ recvData' = Upd(recvData, n, Append(recvData[n], <<>>))
    /\ backlog' = Upd(backlog, n, Tail(backlog[n]))
    /\ UNCHANGED << cfgVars, pc, mainVars, netVars, faults, accPc, colPc, colIdx,
                    receivedRecords, waitGroup >>

\* An accept loop that starts the collector and goes on.
AcceptDoneNoBreak(n) ==
    /\ Scheduled(n)
    /\ accPc[n] = "loop"
    /\ Len(clientConnections[n]) = numServers - 1
    /\ colPc' = Upd(colPc, n, "run")
    /\ colIdx' = Upd(colIdx, n, 1)
    /\ UNCHANGED << cfgVars, pc, mainVars, netVars, faults, backlog, clientConnections,
                    nodeChannels, recvData, receivedRecords, waitGroup, accPc >>

\* len(clientConnections) == numServers-1: go collectReceivedData(); break.
AcceptDone(n) ==
    /\ Scheduled(n)
    /\ accPc[n] = "loop"
    /\ Len(clientConnections[n]) = numServers - 1
    /\ accPc' = Upd(accPc, n, "done")
    /\ colPc' = Upd(colPc, n, "run")
    /\ colIdx' = Upd(colIdx, n, 1)
    /\ UNCHANGED << cfgVars, pc, mainVars, netVars, faults, backlog, clientConnections,
                    nodeChannels, recvData, receivedRecords, waitGroup >>

\* The reader of connection k is in its read loop (not blocked on its
\* channel, not returned).
Reading(n, k) ==
    /\ Scheduled(n)
    /\ k \in DOMAIN recvData[n]
    /\ ~nodeChannels[n][k].closed
    /\ nodeChannels[n][k].val = <<>>

\* A reader that sends the payload of every frame on its channel, the
\* terminator's too.
DecodeTerminatorAsRecord(ch, data) ==
    [closed |-> data[1] = StreamCompleteByte,
     val |-> << Record(SubSeq(data, 2, KeySize + 1), SubSeq(data, KeySize + 2, FrameSize)) >>]

\* What the reader does with a frame once bytesToRead >= 101: a control
\* byte of 1 ends the reader and closes its channel (defer close), any
\* other sends Record{data[1:11], data[11:101]} on the channel.
Decode(ch, data) ==
    IF data[1] = StreamCompleteByte
    THEN [ch EXCEPT !.closed = TRUE]
    ELSE [ch EXCEPT !.val = << Record(SubSeq(data, 2, KeySize + 1),
                                      SubSeq(data, KeySize + 2, FrameSize)) >>]

\* A reader whose buffer is 101 bytes long at every read, whatever it has
\* collected of the frame.
ReadChunkWholeBuf(n, k, most) ==
    /\ Reading(n, k)
    /\ LET p == clientConnections[n][k]
           cnt == Min(most, Min(Len(stream[<<p, n>>]), FrameSize))
           data == recvData[n][k] \o SubSeq(stream[<<p, n>>], 1, cnt)
       IN  /\ cnt > 0
           /\ stream' = [stream EXCEPT ![<<p, n>>] = SubSeq(@, cnt + 1, Len(@))]
           /\ IF Len(data) >= FrameSize
              THEN /\ recvData' = [recvData EXCEPT ![n][k] = <<>>]
                   /\ nodeChannels' = [nodeChannels EXCEPT ![n][k] = Decode(@, data)]
              ELSE /\ recvData' = [recvData EXCEPT ![n][k] = data]
                   /\ UNCHANGED nodeChannels
    /\ UNCHANGED << cfgVars, pc, mainVars, faults, sent, backlog, accPc,
                    clientConnections, colPc, colIdx, receivedRecords, waitGroup >>

\* conn.Read(buf) with len(buf) = 101 - bytesToRead returns bytes that have
\* arrived: at most len(buf), and at most as many as the transport hands
\* over in one read.  A full frame is decoded at once.
ReadChunk(n, k, most) ==
    /\ Reading(n, k)
    /\ LET p == clientConnections[n][k]
           cnt == Min(most, Min(Len(stream[<<p, n>>]), FrameSize - Len(recvData[n][k])))
           data == recvData[n][k] \o SubSeq(stream[<<p, n>>], 1, cnt)
       IN  /\ cnt > 0
           /\ stream' = [stream EXCEPT ![<<p, n>>] = SubSeq(@, cnt + 1, Len(@))]
           /\ IF Len(data) >= FrameSize
              THEN /\ recvData' = [recvData EXCEPT ![n][k] = <<>>]
                   /\ nodeChannels' = [nodeChannels EXCEPT ![n][k] = Decode(@, data)]
              ELSE /\ recvData' = [recvData EXCEPT ![n][k] = data]
                   /\ UNCHANGED nodeChannels
    /\ UNCHANGED << cfgVars, pc, mainVars, faults, sent, backlog, accPc,
                    clientConnections, colPc, colIdx, receivedRecords, waitGroup >>

\* A read that returns all that has arrived of the frame.
Recv(n, k) == ReadChunk(n, k, FrameSize)

\* A collector that receives a record and does not append it.
CollectDiscard(n) ==
    /\ Scheduled(n)
    /\ colPc[n] = "run"
    /\ colIdx[n] <= Len(nodeChannels[n])
    /\ nodeChannels[n][colIdx[n]].val # <<>>
    /\ nodeChannels' = [nodeChannels EXCEPT ![n][colIdx[n]].val = <<>>]
    /\ UNCHANGED << cfgVars, pc, mainVars, netVars, faults, backlog, accPc,
                    clientConnections, recvData, colPc, colIdx, waitGroup,
                    receivedRecords >>

\* A collector that leaves a channel that is empty, closed or not.
CollectNextEarly(n) ==
    /\ Scheduled(n)
    /\ colPc[n] = "run"
    /\ colIdx[n] <= Len(nodeChannels[n])
    /\ nodeChannels[n][colIdx[n]].val = <<>>
    /\ colIdx' = Upd(colIdx, n, colIdx[n] + 1)
    /\ UNCHANGED << cfgVars, pc, mainVars, netVars, faults, backlog, accPc,
                    clientConnections, nodeChannels, recvData, colPc,
                    receivedRecords, waitGroup >>

\* A collector that receives from whichever channel holds a record.
CollectAnyChannel(n) ==
    /\ Scheduled(n)
    /\ colPc[n] = "run"
    /\ \E k \in DOMAIN nodeChannels[n] :
          /\ nodeChannels[n][k].val # <<>>
          /\ receivedRecords' = Upd(receivedRecords, n,
                                    Append(receivedRecords[n], nodeChannels[n][k].val[1]))
          /\ nodeChannels' = [nodeChannels EXCEPT ![n][k].val = <<>>]
    /\ UNCHANGED << cfgVars, pc, mainVars, netVars, faults, backlog, accPc,
                    clientConnections, recvData, colPc, colIdx, waitGroup >>

\* for rec := range nodeChannels[i]: a record is received from the reader
\* blocked on the channel and appended.
Collect(n) ==
    /\ Scheduled(n)
    /\ colPc[n] = "run"
    /\ colIdx[n] <= Len(nodeChannels[n])
    /\ nodeChannels[n][colIdx[n]].val # <<>>
    /\ receivedRecords' = Upd(receivedRecords, n,
                              Append(receivedRecords[n], nodeChannels[n][colIdx[n]].val[1]))
    /\ nodeChannels' = [nodeChannels EXCEPT ![n][colIdx[n]].val = <<>>]
    /\ UNCHANGED << cfgVars, pc, mainVars, netVars, faults, backlog, accPc,
                    clientConnections, recvData, colPc, colIdx, waitGroup >>

\* The range over a closed channel ends: i++.
CollectNext(n) ==
    /\ Scheduled(n)
    /\ colPc[n] = "run"
    /\ colIdx[n] <= Len(nodeChannels[n])
    /\ nodeChannels[n][colIdx[n]].closed
    /\ colIdx' = Upd(colIdx, n, colIdx[n] + 1)
    /\ UNCHANGED << cfgVars, pc, mainVars, netVars, faults, backlog, accPc,
                    clientConnections, nodeChannels, recvData, colPc,
                    receivedRecords, waitGroup >>

\* i == len(nodeChannels): waitGroup.Done().
CollectDone(n) ==
    /\ Scheduled(n)
    /\ colPc[n] = "run"
    /\ colIdx[n] > Len(nodeChannels[n])
    /\ waitGroup' = Upd(waitGroup, n, waitGroup[n] - 1)
    /\ colPc' = Upd(colPc, n, "done")
    /\ UNCHANGED << cfgVars, pc, mainVars, netVars, faults, backlog, accPc,
                    clientConnections, nodeChannels, recvData, colIdx,
                    receivedRecords >>

(***************************************************************************)
(* I/O errors.  checkErrorAndExit ends the process through log.Fatalf,     *)
(* which runs no deferred call: no channel is closed, the sockets are      *)
(* closed by the kernel.  main may be between the writes of a frame when   *)
(* the process ends, whichever task met the error.                         *)
(***************************************************************************)
\* The frames main may be about to write: the frame of the next record if
\* another node owns it, or a terminator the loop has still to send.
Pending(n) ==
    IF pc[n] = "read" /\ ~NextKey(n).eof /\ ~NextValue(n).eof
    THEN LET key == Filled(NextKey(n).bytes, KeySize)
             value == Filled(NextValue(n).bytes, ValueSize)
             r == Route(numServers, n, key[1])
         IN  IF r.kind = "send" /\ r.to \in connections[n]
             THEN { [to |-> r.to, frame |-> Frame(DataByte, key, value)] }
             ELSE {}
    ELSE IF pc[n] = "term"
    THEN { [to |-> q, frame |-> Frame(StreamCompleteByte, Zeros(KeySize), Zeros(ValueSize))] :
             q \in connections[n] \ termDone[n] }
    ELSE {}

\* What is written of a frame whose writes did not all happen: nothing, the
\* control byte, or the control byte and the key.
Truncated(n) ==
    { [to |-> n, bytes |-> <<>>] }
    \cup { [to |-> w.to, bytes |-> SubSeq(w.frame, 1, 1)] : w \in Pending(n) }
    \cup { [to |-> w.to, bytes |-> SubSeq(w.frame, 1, 1 + KeySize)] : w \in Pending(n) }

\* log.Fatalf: the process of node n ends.
Crash(n) ==
    /\ pc' = Upd(pc, n, "fatal")
    /\ \E w \in Truncated(n) :
          IF w.bytes = <<>> THEN UNCHANGED netVars
          ELSE /\ stream' = Append2(stream, n, w.to, w.bytes)
               /\ sent' = Append2(sent, n, w.to, w.bytes)

\* net.Listen or os.Open fails.
StartError(n) ==
    /\ pc[n] = "init"
    /\ faults < MaxFaults
    /\ faults' = faults + 1
    /\ pc' = Upd(pc, n, "fatal")
    /\ UNCHANGED << cfgVars, mainVars, srvVars, netVars >>

\* inputFile.Read fails with an error other than io.EOF.
InputError(n) ==
    /\ pc[n] = "read"
    /\ faults < MaxFaults
    /\ faults' = faults + 1
    /\ pc' = Upd(pc, n, "fatal")
    /\ UNCHANGED << cfgVars, mainVars, srvVars, netVars >>

\* conn.Write fails: an injected error, or the peer's process is gone.
WriteError(n) ==
    /\ \E w \in Pending(n) :
          /\ Gone(w.to) \/ faults < MaxFaults
          /\ faults' = IF Gone(w.to) THEN faults ELSE faults + 1
          /\ \E len \in {0, 1, 1 + KeySize} :
                /\ stream' = Append2(stream, n, w.to, SubSeq(w.frame, 1, len))
                /\ sent' = Append2(sent, n, w.to, SubSeq(w.frame, 1, len))
    /\ pc' = Upd(pc, n, "fatal")
    /\ UNCHANGED << cfgVars, mainVars, srvVars >>

\* os.Create of the output fails, or outputFile.Write of a key or of a
\* value does (the key is then in the file).
OutputError(n) ==
    /\ pc[n] = "emit"
    /\ faults < MaxFaults
    /\ faults' = faults + 1
    /\ \/ /\ outPos[n] = 1 \/ outPos[n] <= Len(records[n])
          /\ UNCHANGED outputFile
       \/ /\ outPos[n] <= Len(records[n])
          /\ outputFile' = Upd(outputFile, n, outputFile[n] \o records[n][outPos[n]].Key)
    /\ pc' = Upd(pc, n, "fatal")
    /\ UNCHANGED << cfgVars, srvVars, netVars, inOff, dialIdx, connections, dialErr,
                    termDone, ownRecords, records, outPos >>

\* listener.Accept fails.
AcceptError(n) ==
    /\ Scheduled(n)
    /\ accPc[n] = "loop"
    /\ Len(clientConnections[n]) # numServers - 1
    /\ faults < MaxFaults
    /\ faults' = faults + 1
    /\ Crash(n)
    /\ UNCHANGED << cfgVars, mainVars, srvVars >>

\* conn.Read fails on an open connection.
RecvError(n, k) ==
    /\ Reading(n, k)
    /\ faults < MaxFaults
    /\ faults' = faults + 1
    /\ Crash(n)
    /\ UNCHANGED << cfgVars, mainVars, srvVars >>

\* An end of stream that ends the reader as a terminator does.
RecvEOFClean(n, k) ==
    /\ Reading(n, k)
    /\ Gone(clientConnections[n][k])
    /\ stream[<<clientConnections[n][k], n>>] = <<>>
    /\ nodeChannels' = [nodeChannels EXCEPT ![n][k].closed = TRUE]
    /\ recvData' = [recvData EXCEPT ![n][k] = <<>>]
    /\ UNCHANGED << cfgVars, pc, mainVars, netVars, faults, backlog, accPc,
                    clientConnections, colPc, colIdx, receivedRecords, waitGroup >>

\* conn.Read returns io.EOF: the peer's process is gone and every byte it
\* wrote has been read.
RecvEOF(n, k) ==
    /\ Reading(n, k)
    /\ Gone(clientConnections[n][k])
    /\ stream[<<clientConnections[n][k], n>>] = <<>>
    /\ Crash(n)
    /\ UNCHANGED << cfgVars, mainVars, srvVars, faults >>

(***************************************************************************)
(* Specifications.                                                         *)
(***************************************************************************)
\* Runs without I/O errors, of one to three nodes.
Next ==
    \/ \E n \in Nodes : Start(n)
    \/ \E n \in Nodes : DialOK(n)
    \/ \E n \in Nodes : DialRetry(n)
    \/ \E n \in Nodes : Dispatch(n)
    \/ \E n \in Nodes : ReadEOF(n)
    \/ \E n \in Nodes : \E q \in Nodes : SendTerminator(n, q)
    \/ \E n \in Nodes : MergeSort(n)
    \/ \E n \in Nodes : EmitRecord(n)
    \/ \E n \in Nodes : Exit(n)
    \/ \E n \in Nodes : Accept(n)
    \/ \E n \in Nodes : AcceptDone(n)
    \/ \E n \in Nodes : \E k \in DOMAIN recvData[n] : Recv(n, k)
    \/ \E n \in Nodes : Collect(n)
    \/ \E n \in Nodes : CollectNext(n)
    \/ \E n \in Nodes : CollectDone(n)

Spec == Init /\ [][Next]_vars

\* Runs of one or two nodes with I/O errors.
InitFault ==
    /\ \E N \in 1 .. FullCluster : \E sh \in Shards(N) : InitRun(N, sh, 0 .. N - 1)
    /\ arg = <<>>
    /\ res = <<>>

NextFault ==
    \/ Next
    \/ \E n \in Nodes : StartError(n)
    \/ \E n \in Nodes : InputError(n)
    \/ \E n \in Nodes : WriteError(n)
    \/ \E n \in Nodes : OutputError(n)
    \/ \E n \in Nodes : AcceptError(n)
    \/ \E n \in Nodes : \E k \in DOMAIN recvData[n] : RecvError(n, k)
    \/ \E n \in Nodes : \E k \in DOMAIN recvData[n] : RecvEOF(n, k)

SpecFault == InitFault /\ [][NextFault]_vars

\* Runs of one or two nodes without I/O errors in which a dial that can
\* succeed is not put off for ever: connectToSocket dials again every 250
\* ms, in main, which nothing blocks in that loop.  A node may never start.
SpecLive ==
    /\ InitFault
    /\ [][Next]_vars
    /\ \A n \in 0 .. FullCluster - 1 : WF_vars(n \in Nodes /\ DialOK(n))

\* Runs with I/O errors in which a reader whose conn.Read would return
\* io.EOF is not put off for ever: the read is a call that returns.
SpecFaultLive ==
    /\ InitFault
    /\ [][NextFault]_vars
    /\ \A n \in 0 .. FullCluster - 1 : \A k \in 1 .. FullCluster - 1 :
          WF_vars(n \in Nodes /\ k \in DOMAIN recvData[n] /\ RecvEOF(n, k))

(***************************************************************************)
(* The reader on short reads: runs of two nodes in which node 1 sends its  *)
(* records to node 0, whose reads return 1 byte, 7 bytes, or all that has  *)
(* arrived of the frame.                                                   *)
(***************************************************************************)
ChunkSizes == {1, 7, FrameSize}

InitRead ==
    /\ \E sh1 \in SeqsUpTo(MaxRecs, RecordPool) :
          InitRun(2, [n \in 0 .. 1 |-> IF n = 1 THEN sh1 ELSE <<>>], {0})
    /\ arg = <<>>
    /\ res = <<>>

NextRead ==
    \/ \E n \in Nodes : Start(n)
    \/ \E n \in Nodes : DialOK(n)
    \/ \E n \in Nodes : DialRetry(n)
    \/ \E n \in Nodes : Dispatch(n)
    \/ \E n \in Nodes : ReadEOF(n)
    \/ \E n \in Nodes : \E q \in Nodes : SendTerminator(n, q)
    \/ \E n \in Nodes : MergeSort(n)
    \/ \E n \in Nodes : EmitRecord(n)
    \/ \E n \in Nodes : Exit(n)
    \/ \E n \in Nodes : Accept(n)
    \/ \E n \in Nodes : AcceptDone(n)
    \/ \E n \in Nodes : \E k \in DOMAIN recvData[n] : \E most \in ChunkSizes :
          ReadChunk(n, k, most)
    \/ \E n \in Nodes : Collect(n)
    \/ \E n \in Nodes : CollectNext(n)
    \/ \E n \in Nodes : CollectDone(n)

SpecRead == InitRead /\ [][NextRead]_vars

(***************************************************************************)
(* Runs with a transport of finite capacity: a connection holds at most    *)
(* StreamCap frames that its reader has not read, and a write of a frame   *)
(* blocks while there is no room for it.  The runs are those of four       *)
(* nodes from the state in which every node has dialed every peer, every   *)
(* accept loop has ended and no record has been read yet, and those of    *)
(* two nodes from the like state.                                          *)
(***************************************************************************)
HasRoom(n, q) == Len(stream[<<n, q>>]) + FrameSize <= StreamCap * FrameSize

\* The write of the next record's frame would not block.
CanWrite(n) ==
    LET key == Filled(NextKey(n).bytes, KeySize)
        r == Route(numServers, n, key[1])
    IN  r.kind = "send" => HasRoom(n, r.to)

DispatchBounded(n) == pc[n] = "read" /\ CanWrite(n) /\ Dispatch(n)

SendTerminatorBounded(n, q) == q \in Peers(n) /\ HasRoom(n, q) /\ SendTerminator(n, q)

FlowRecs == StreamCap + 2

RECURSIVE Ascending(_, _)
\* The members of S that are at least i, in ascending order.
Ascending(S, i) ==
    IF \A x \in S : x < i THEN <<>>
    ELSE (IF i \in S THEN << i >> ELSE <<>>) \o Ascending(S, i + 1)

\* An order of the accepted connections of node n of N: that of peer p
\* first, then the others by id.
AcceptOrder(N, n, p) == << p >> \o Ascending((0 .. N - 1) \ {n, p}, 0)

\* The shard of node n of N: cnt records whose keys belong to node to.
FlowShard(N, n, to, cnt) ==
    [i \in 1 .. cnt |-> Record(KeyOf(Pow2(8 - Msb(N)) * to, n), ValueOf(i))]

\* The state of a run of N nodes in which every node has dialed every peer
\* and every accept loop has ended, with the accepted connections of node
\* n in the order order[n], and the collector started.  The nodes of quiet,
\* whose shards are empty, have written their terminators, which have been
\* read; no other node has read a record.
Established(N, sh, order, quiet) ==
    /\ numServers = N
    /\ served = 0 .. N - 1
    /\ inputFile = [n \in 0 .. N - 1 |-> FileOf(sh[n])]
    /\ inOff = [n \in 0 .. N - 1 |-> 0]
    /\ pc = [n \in 0 .. N - 1 |-> IF n \in quiet THEN "wait" ELSE "read"]
    /\ dialIdx = [n \in 0 .. N - 1 |-> N]
    /\ connections = [n \in 0 .. N - 1 |-> (0 .. N - 1) \ {n}]
    /\ dialErr = [n \in 0 .. N - 1 |-> FALSE]
    /\ termDone = [n \in 0 .. N - 1 |-> IF n \in quiet THEN (0 .. N - 1) \ {n} ELSE {}]
    /\ ownRecords = [n \in 0 .. N - 1 |-> <<>>]
    /\ backlog = [n \in 0 .. N - 1 |-> <<>>]
    /\ accPc = [n \in 0 .. N - 1 |-> "done"]
    /\ clientConnections = order
    /\ nodeChannels = [n \in 0 .. N - 1 |->
                          [k \in 1 .. N - 1 |-> [closed |-> order[n][k] \in quiet, val |-> <<>>]]]
    /\ recvData = [n \in 0 .. N - 1 |-> [k \in 1 .. N - 1 |-> <<>>]]
    /\ colPc = [n \in 0 .. N - 1 |-> "run"]
    /\ colIdx = [n \in 0 .. N - 1 |-> 1]
    /\ receivedRecords = [n \in 0 .. N - 1 |-> <<>>]
    /\ waitGroup = [n \in 0 .. N - 1 |-> 1]
    /\ records = [n \in 0 .. N - 1 |-> <<>>]
    /\ outPos = [n \in 0 .. N - 1 |-> 0]
    /\ outputFile = [n \in 0 .. N - 1 |-> <<>>]
    /\ stream = [pq \in { x \in (0 .. N - 1) \X (0 .. N - 1) : x[1] # x[2] } |-> <<>>]
    /\ sent = [pq \in { x \in (0 .. N - 1) \X (0 .. N - 1) : x[1] # x[2] } |->
                  IF pq[1] \in quiet
                  THEN Frame(StreamCompleteByte, Zeros(KeySize), Zeros(ValueSize))
                  ELSE <<>>]
    /\ faults = 0

\* Two nodes, each with up to FlowRecs records of the other.
InitFlowPair ==
    \E c \in [0 .. 1 -> 0 .. FlowRecs] :
        Established(2, [n \in 0 .. 1 |-> FlowShard(2, n, 1 - n, c[n])],
                    [n \in 0 .. 1 |-> << 1 - n >>], {})

\* FlowCluster nodes: nodes 0, 1 and 2 hold FlowRecs records each, of the
\* next of them in a ring, and each has accepted the connection of that
\* next node first; the last node is quiet.
InitFlowRing ==
    \E first \in [0 .. 2 -> 0 .. 2] :
        /\ \A n \in 0 .. 2 : first[n] = (n + 1) % 3
        /\ Established(FlowCluster,
                       [n \in 0 .. FlowCluster - 1 |->
                           IF n < 3 THEN FlowShard(FlowCluster, n, (n + 1) % 3, FlowRecs)
                           ELSE <<>>],
                       [n \in 0 .. FlowCluster - 1 |->
                           IF n < 3 THEN AcceptOrder(FlowCluster, n, first[n])
                           ELSE Ascending((0 .. FlowCluster - 1) \ {n}, 0)],
                       (0 .. FlowCluster - 1) \ (0 .. 2))

InitFlow ==
    /\ InitFlowPair \/ InitFlowRing
    /\ arg = <<>>
    /\ res = <<>>

NextFlow ==
    \/ \E n \in Nodes : DispatchBounded(n)
    \/ \E n \in Nodes : ReadEOF(n)
    \/ \E n \in Nodes : \E q \in Nodes : SendTerminatorBounded(n, q)
    \/ \E n \in Nodes : MergeSort(n)
    \/ \E n \in Nodes : EmitRecord(n)
    \/ \E n \in Nodes : Exit(n)
    \/ \E n \in Nodes : \E k \in DOMAIN recvData[n] : Recv(n, k)
    \/ \E n \in Nodes : Collect(n)
    \/ \E n \in Nodes : CollectNext(n)
    \/ \E n \in Nodes : CollectDone(n)

\* Some task that can take a step does: the scheduler runs a task that is
\* not blocked.
SpecFlow == InitFlow /\ [][NextFlow]_vars /\ WF_vars(NextFlow)

(***************************************************************************)
(* Runs of three nodes in which nodes 1 and 2 send node 0 records that     *)
(* differ from one another: up to MaxRecs of node 1 and one fewer of node  *)
(* 2.  The server side of node 0 alone is scheduled.                       *)
(***************************************************************************)
\* cnt records of node p whose keys belong to node 0 of three.
OrderShard(p, cnt) == [i \in 1 .. cnt |-> Record(KeyOf(16 * p, i), ValueOf(p))]

InitOrder ==
    /\ \E c1 \in 0 .. MaxRecs : \E c2 \in 0 .. MaxRecs - 1 :
          InitRun(3, [n \in 0 .. 2 |-> IF n = 0 THEN <<>> ELSE
                                       OrderShard(n, IF n = 1 THEN c1 ELSE c2)], {0})
    /\ arg = <<>>
    /\ res = <<>>

SpecOrder == InitOrder /\ [][Next]_vars

(***************************************************************************)
(* Runs of one node whose input returns short reads: a read returns 4      *)
(* bytes, or all that was asked for.                                       *)
(***************************************************************************)
ShortSizes == {4, ValueSize}

ShortPool == { Record(KeyOf(16, 0), ValueOf(1)), Record(KeyOf(64, 255), ValueOf(2)) }

InitShort ==
    /\ \E sh \in SeqsUpTo(MaxRecs, ShortPool) : InitRun(1, [n \in {0} |-> sh], {0})
    /\ arg = <<>>
    /\ res = <<>>

NextShort ==
    \/ \E n \in Nodes : Start(n)
    \/ \E n \in Nodes : \E kmost \in ShortSizes : \E vmost \in ShortSizes :
          DispatchShort(n, kmost, vmost)
    \/ \E n \in Nodes : \E kmost \in ShortSizes : ReadEOFShort(n, kmost)
    \/ \E n \in Nodes : MergeSort(n)
    \/ \E n \in Nodes : EmitRecord(n)
    \/ \E n \in Nodes : Exit(n)
    \/ \E n \in Nodes : AcceptDone(n)
    \/ \E n \in Nodes : CollectDone(n)

SpecShort == InitShort /\ [][NextShort]_vars

(***************************************************************************)
(* The partitioner on its own: the routing of one record, for every first  *)
(* key byte and every cluster size up to MaxCluster.                       *)
(***************************************************************************)
\* No run: the variables of a cluster of no node.
NoRun ==
    /\ numServers = 0 /\ served = {} /\ faults = 0
    /\ inputFile = <<>> /\ inOff = <<>> /\ pc = <<>> /\ dialIdx = <<>>
    /\ connections = <<>> /\ dialErr = <<>> /\ termDone = <<>> /\ ownRecords = <<>>
    /\ backlog = <<>> /\ accPc = <<>> /\ clientConnections = <<>>
    /\ nodeChannels = <<>> /\ recvData = <<>> /\ colPc = <<>> /\ colIdx = <<>>
    /\ receivedRecords = <<>> /\ waitGroup = <<>> /\ records = <<>>
    /\ outPos = <<>> /\ outputFile = <<>> /\ stream = <<>> /\ sent = <<>>

\* The node ids the routing is tried on: the first, the last, and the first
\* id beyond the power of two below N.
RoutedOn(N) == { 0, N - 1 } \cup { i \in { Pow2(Msb(N)) } : i < N }

InitPart ==
    /\ NoRun
    /\ \E N \in 1 .. MaxCluster : \E id \in RoutedOn(N) : \E b \in 0 .. 255 :
          arg = [numServers |-> N, serverID |-> id, firstByte |-> b]
    /\ res = <<>>

RouteOne ==
    /\ res = <<>>
    /\ res' = Route(arg.numServers, arg.serverID, arg.firstByte)
    /\ UNCHANGED << numServers, inputFile, served, arg, pc, mainVars, srvVars,
                    netVars, faults >>

SpecPart == InitPart /\ [][RouteOne]_vars

(***************************************************************************)
(* A frame on its own: the writes of a data frame by the dispatch loop and *)
(* its decoding by a reader, for keys and values of one repeated byte and  *)
(* of rising and falling bytes.                                            *)
(***************************************************************************)
Patterns(n) ==
    { [i \in 1 .. n |-> b] : b \in {0, 1, 2, 127, 128, 255} }
    \cup { [i \in 1 .. n |-> i], [i \in 1 .. n |-> 256 - i] }

InitFrame ==
    /\ NoRun
    /\ \E k \in Patterns(KeySize) : \E v \in Patterns(ValueSize) :
          arg = [rec |-> Record(k, v)]
    /\ res = <<>>

\* The three writes of the frame, and the reader's decoding of the 101
\* bytes on a channel that is open and empty.
FrameOne ==
    /\ res = <<>>
    /\ res' = Decode([closed |-> FALSE, val |-> <<>>],
                     Frame(DataByte, arg.rec.Key, arg.rec.Value))
    /\ UNCHANGED << numServers, inputFile, served, arg, pc, mainVars, srvVars,
                    netVars, faults >>

SpecFrame == InitFrame /\ [][FrameOne]_vars

(***************************************************************************)
(* The merge and the sort on their own, on local and received records of   *)
(* keys that differ in their first byte, differ only in a later byte, or   *)
(* are equal.                                                              *)
(***************************************************************************)
SortPool ==
    { Record(KeyOf(16, 0), ValueOf(1)),
      Record(KeyOf(16, 0), ValueOf(2)),
      Record(KeyOf(16, 255), ValueOf(3)),
      Record(KeyOf(15, 255), ValueOf(4)),
      Record(KeyOf(255, 1), ValueOf(5)) }

InitSort ==
    /\ NoRun
    /\ \E own \in SeqsUpTo(MaxSortLen, SortPool) :
       \E received \in SeqsUpTo(MaxSortLen, SortPool) :
          arg = [ownRecords |-> own, receivedRecords |-> received]
    /\ res = <<>>

\* The merge, the sort and the writes of the output.
SortOne ==
    /\ res = <<>>
    /\ res' = [outputFile |-> FileOf(Merged(arg.ownRecords, arg.receivedRecords))]
    /\ UNCHANGED << numServers, inputFile, served, arg, pc, mainVars, srvVars,
                    netVars, faults >>

SpecSort == InitSort /\ [][SortOne]_vars

(***************************************************************************)
(* What the properties are stated with: the wire format of section 6, the  *)
(* frames a node has written so far, and multisets of records.             *)
(***************************************************************************)
Range(f) == { f[i] : i \in DOMAIN f }

\* The multiset of the elements of a sequence.
BagOf(sq) == [x \in Range(sq) |-> Cardinality({ i \in DOMAIN sq : sq[i] = x })]

\* The complete frames, each of control byte, key and value, in a sequence
\* of bytes.
FramesIn(bs) ==
    [i \in 1 .. (Len(bs) \div FrameSize) |->
        [ctl |-> bs[(i - 1) * FrameSize + 1],
         rec |-> Record(SubSeq(bs, (i - 1) * FrameSize + 2, (i - 1) * FrameSize + 11),
                        SubSeq(bs, (i - 1) * FrameSize + 12, i * FrameSize))]]

IsTerminator(f) == f.ctl = 1

IsData(f) == f.ctl = 0

RECURSIVE RecordsIn(_)
\* The records of the data frames of a sequence of frames.
RecordsIn(fs) ==
    IF fs = <<>> THEN <<>>
    ELSE (IF IsData(Head(fs)) THEN << Head(fs).rec >> ELSE <<>>) \o RecordsIn(Tail(fs))

\* The frames p has written to q, and those of them q's reader has read in
\* full.
FramesSent(p, q) == FramesIn(sent[<<p, q>>])

FramesRead(p, q) ==
    FramesIn(SubSeq(sent[<<p, q>>], 1,
                    Len(sent[<<p, q>>]) - Len(stream[<<p, q>>])
                    - (IF \E k \in DOMAIN clientConnections[q] : clientConnections[q][k] = p
                       THEN Len(recvData[q][CHOOSE k \in DOMAIN clientConnections[q] :
                                              clientConnections[q][k] = p])
                       ELSE 0)))

TerminatorsRead(p, q) ==
    Cardinality({ i \in DOMAIN FramesRead(p, q) : IsTerminator(FramesRead(p, q)[i]) })

RECURSIVE DataSentTo(_, _)
\* The records of the data frames that the nodes 0 .. p have written to n.
DataSentTo(n, p) ==
    IF p < 0 THEN <<>>
    ELSE DataSentTo(n, p - 1) \o (IF p = n THEN <<>> ELSE RecordsIn(FramesSent(p, n)))

\* waitGroup.Done() has run on node n.
BarrierFired(n) == colPc[n] = "done"

\* main of node n is past waitGroup.Wait().
Merging(n) == pc[n] \in {"emit", "done"}

(***************************************************************************)
(* C1.  The barrier of a node does not fire, and main does not start to    *)
(* merge, before the node's readers have decoded N-1 terminator frames,    *)
(* exactly one on each of N-1 inbound connections, one per peer.           *)
(***************************************************************************)
C1_BarrierAfterAllTerminators ==
    \A n \in Nodes :
        /\ Merging(n) => BarrierFired(n)
        /\ BarrierFired(n) =>
              /\ Len(clientConnections[n]) = numServers - 1
              /\ Range(clientConnections[n]) = Peers(n)
              /\ \A p \in Peers(n) : TerminatorsRead(p, n) = 1

\* The barrier of node 0 has fired in a cluster of three nodes, after data
\* frames.
C1_Witness ==
    /\ numServers = 3
    /\ BarrierFired(0)
    /\ Len(receivedRecords[0]) >= 1

(***************************************************************************)
(* C2.  When the barrier of a node has fired, its received-records buffer  *)
(* holds exactly the multiset of the records its peers have sent it in     *)
(* data frames.                                                            *)
(***************************************************************************)
C2_ReceivedIsWhatWasSent ==
    \A n \in Nodes :
        BarrierFired(n) =>
            BagOf(receivedRecords[n]) = BagOf(DataSentTo(n, numServers - 1))

\* The barrier of node 0 has fired after each of its two peers sent it a
\* data frame.
C2_Witness ==
    /\ numServers = 3
    /\ BarrierFired(0)
    /\ \A p \in Peers(0) : RecordsIn(FramesSent(p, 0)) # <<>>

(***************************************************************************)
(* C3.  In a cluster whose size is a power of two, the output of a node    *)
(* that has finished holds exactly the records of all input shards whose   *)
(* key, by its top log2(N) bits, belongs to the node: each once, and none  *)
(* of another node.                                                        *)
(***************************************************************************)
IsPowerOfTwo(N) == \E e \in 0 .. 16 : N = 2 ^ e

\* The node id that the top log2(N) bits of the first key byte spell.
Owner(key, N) == (key[1] * N) \div 256

RECURSIVE InputsUpTo(_)
\* The records of the input shards of the nodes 0 .. m.
InputsUpTo(m) == IF m < 0 THEN <<>> ELSE InputsUpTo(m - 1) \o RecordsOf(inputFile[m])

OwnedBy(n) ==
    LET Mine(r) == Owner(r.Key, numServers) = n
    IN  SelectSeq(InputsUpTo(numServers - 1), Mine)

C3_OutputIsOwnedRecords ==
    IsPowerOfTwo(numServers) =>
        \A n \in Nodes :
            pc[n] = "done" => BagOf(RecordsOf(outputFile[n])) = BagOf(OwnedBy(n))

\* Both nodes of a cluster of two have finished, and each has written a
\* record that the other node read from its input.
C3_Witness ==
    /\ numServers = 2
    /\ \A n \in Nodes : pc[n] = "done" /\ receivedRecords[n] # <<>> /\ outputFile[n] # <<>>

(***************************************************************************)
(* C5.  What a node writes on its connection to a peer is whole frames:    *)
(* data frames, then one terminator, which is the last frame.  No          *)
(* terminator is written before the input is consumed, every peer has its  *)
(* terminator once main waits on the barrier, whether or not it was sent   *)
(* data, and the data frames written by then are the records of the input  *)
(* that other nodes own.                                                   *)
(***************************************************************************)
Outbound(n) == UNION { { <<q, i>> : i \in DOMAIN FramesSent(n, q) } : q \in Peers(n) }

C5_DataThenOneTerminator ==
    \A n \in Nodes :
        /\ \A q \in Peers(n) :
              LET fs == FramesSent(n, q)
              IN  /\ Len(sent[<<n, q>>]) = Len(fs) * FrameSize
                  /\ \A i \in DOMAIN fs :
                        /\ IsData(fs[i]) \/ IsTerminator(fs[i])
                        /\ IsTerminator(fs[i]) => i = Len(fs)
                  /\ pc[n] \in {"init", "dial", "read"} =>
                        \A i \in DOMAIN fs : IsData(fs[i])
                  /\ pc[n] \in {"wait", "emit", "done"} =>
                        fs # <<>> /\ IsTerminator(fs[Len(fs)])
        /\ pc[n] \in {"term", "wait", "emit", "done"} =>
              Cardinality({ x \in Outbound(n) : IsData(FramesSent(n, x[1])[x[2]]) })
                = Len(SelectSeq(RecordsOf(inputFile[n]),
                                LAMBDA r : Owner(r.Key, Pow2(Msb(numServers))) # n))

\* A node of a cluster of three waits on the barrier, having sent one peer
\* a data frame and the other none.
C5_Witness ==
    /\ numServers = 3
    /\ pc[2] = "wait"
    /\ Len(FramesSent(2, 0)) = 2
    /\ Len(FramesSent(2, 1)) = 1

(***************************************************************************)
(* C4.  The records of an output are in ascending lexicographic order of   *)
(* their keys, compared byte by byte as unsigned numbers, whatever the     *)
(* local and the received records are, equal keys included; they are the   *)
(* local and the received records.                                         *)
(***************************************************************************)
LexLeq(a, b) ==
    \/ a = b
    \/ \E i \in 1 .. KeySize : a[i] < b[i] /\ \A j \in 1 .. i - 1 : a[j] = b[j]

C4_OutputAscending ==
    res # <<>> =>
        LET out == RecordsOf(res.outputFile)
        IN  /\ \A i, j \in DOMAIN out : i < j => LexLeq(out[i].Key, out[j].Key)
            /\ BagOf(out) = BagOf(arg.ownRecords \o arg.receivedRecords)

\* An output, of local and received records that were not in order, with
\* two records of one key and with keys that differ only in their second
\* byte.
C4_Witness ==
    /\ res # <<>>
    /\ arg.ownRecords # <<>>
    /\ arg.receivedRecords # <<>>
    /\ LET out == RecordsOf(res.outputFile)
       IN  /\ out # arg.ownRecords \o arg.receivedRecords
           /\ \E i, j \in DOMAIN out : i # j /\ out[i].Key = out[j].Key
           /\ \E i, j \in DOMAIN out : out[i].Key[1] = out[j].Key[1] /\ out[i].Key # out[j].Key

(***************************************************************************)
(* C6.  For every first key byte and every cluster size N that is a power  *)
(* of two, the dispatch loop computes a destination; it lies in 0 .. N-1   *)
(* and is the number that the top log2(N) bits of the byte spell, on       *)
(* whichever node it is computed.                                          *)
(***************************************************************************)
C6_DestinationOfTopBits ==
    (res # <<>> /\ IsPowerOfTwo(arg.numServers)) =>
        /\ res.kind # "panic"
        /\ res.to \in 0 .. arg.numServers - 1
        /\ res.to = Owner(<< arg.firstByte >>, arg.numServers)

(***************************************************************************)
(* C7.  For a cluster size N that is not a power of two, with P the        *)
(* largest power of two below N: a destination that is computed is below   *)
(* P, hence in 0 .. N-1; no node sends a record to a node id of P or more, *)
(* and a node of such an id keeps no record of its own input.              *)
(***************************************************************************)
PowerBelow(N) == CHOOSE p \in { 2 ^ e : e \in 0 .. 16 } : p <= N /\ N < 2 * p

C7_HighNodesUnreachable ==
    (res # <<>> /\ ~IsPowerOfTwo(arg.numServers)) =>
        /\ res.kind \in {"own", "send"} =>
              /\ res.to \in 0 .. arg.numServers - 1
              /\ res.to < PowerBelow(arg.numServers)
        /\ arg.serverID >= PowerBelow(arg.numServers) => res.kind # "own"
        /\ res.kind = "panic" => res.to = -1

\* The highest node of a cluster of three has routed a record of its input
\* whose first key byte is 255: the record goes to node 1.
C7_Witness ==
    /\ res # <<>>
    /\ arg.numServers = 3
    /\ arg.serverID = 2
    /\ arg.firstByte = 255
    /\ res.kind = "send"
    /\ res.to = 1

(***************************************************************************)
(* C8.  A dial that fails leaves main in connectToSocket, dialing the same *)
(* peer: it does not end the process and nothing but the log shows it.     *)
(* main leaves connectToSocket only with the connection to the peer it     *)
(* dialed, and no error.  A dial of a peer that listens succeeds in the    *)
(* end.                                                                    *)
(***************************************************************************)
Dialing(p, q) == p \in Nodes /\ pc[p] = "dial" /\ dialIdx[p] = q

Connected(p, q) == p \in Nodes /\ q \in connections[p]

DialStep ==
    \A n \in Nodes :
        pc[n] = "dial" =>
            /\ pc'[n] \in {"dial", "read"}
            /\ dialErr'[n] => (pc'[n] = "dial" /\ dialIdx'[n] = dialIdx[n])
            /\ (pc'[n] # "dial" \/ dialIdx'[n] # dialIdx[n]) =>
                  (dialIdx[n] \in connections'[n] /\ ~dialErr'[n])

C8_DialRetriesUntilConnected ==
    /\ [][DialStep]_vars
    /\ \A p, q \in 0 .. FullCluster - 1 :
          (Dialing(p, q) /\ Listening(q)) ~> Connected(p, q)

\* A dial has failed, main is still dialing, and the peer now listens.
C8_Witness ==
    \E n \in Nodes :
        /\ pc[n] = "dial"
        /\ dialErr[n]
        /\ Listening(dialIdx[n])

(***************************************************************************)
(* C9.  When the process of a peer has ended without a whole terminator    *)
(* frame on its connection to a node, the node's channel of that           *)
(* connection is never closed, its barrier does not fire and main does not *)
(* merge; the records delivered to the collector are records of whole data *)
(* frames only; and the reader that meets the end of the stream ends the   *)
(* node's process.                                                         *)
(***************************************************************************)
\* The process of p has ended by log.Fatalf and p has written no whole
\* terminator frame to n.
CutOff(p, n) ==
    /\ pc[p] = "fatal"
    /\ \A i \in DOMAIN FramesSent(p, n) : ~IsTerminator(FramesSent(p, n)[i])

\* The records that the readers of n have sent on their channels.
Delivered(n) ==
    { nodeChannels[n][k].val[1] : k \in { j \in DOMAIN nodeChannels[n] : nodeChannels[n][j].val # <<>> } }
    \cup Range(receivedRecords[n])

\* The reader of connection k of node n is at the end of its stream.
AtEndOfStream(n, k) ==
    /\ Reading(n, k)
    /\ Gone(clientConnections[n][k])
    /\ stream[<<clientConnections[n][k], n>>] = <<>>

C9_NothingOfACutOffStream ==
    \A n \in Nodes :
        /\ Delivered(n) \subseteq Range(DataSentTo(n, numServers - 1))
        /\ \A p \in Peers(n) :
              CutOff(p, n) =>
                 /\ ~BarrierFired(n)
                 /\ ~Merging(n)
                 /\ \A k \in DOMAIN clientConnections[n] :
                       clientConnections[n][k] = p => ~nodeChannels[n][k].closed

C9_TruncatedStreamIsFatal ==
    /\ []C9_NothingOfACutOffStream
    /\ \A n \in 0 .. FullCluster - 1 : \A k \in 1 .. FullCluster - 1 :
          (n \in Nodes /\ k \in DOMAIN recvData[n] /\ AtEndOfStream(n, k))
             ~> (n \in Nodes /\ pc[n] = "fatal")

\* The process of a node has ended after its reader collected a part of a
\* frame from a peer whose process had ended; the node had written all its
\* own frames.
C9_Witness ==
    /\ numServers = 2
    /\ pc[0] = "fatal"
    /\ pc[1] = "fatal"
    /\ CutOff(1, 0)
    /\ \E i \in DOMAIN FramesSent(0, 1) : IsTerminator(FramesSent(0, 1)[i])
    /\ clientConnections[0] = << 1 >>
    /\ recvData[0][1] # <<>>
    /\ stream[<<1, 0>>] = <<>>

(***************************************************************************)
(* C10.  The output of a node whose process was ended by an I/O error      *)
(* holds no record: it is shorter than one record.                         *)
(***************************************************************************)
C10_NoPartialOutput ==
    \A n \in Nodes : pc[n] = "fatal" => Len(outputFile[n]) < RecordSize

(***************************************************************************)
(* C11.  However the reads of a connection are chunked, what the reader    *)
(* holds of the frame it is collecting is the bytes read since the last    *)
(* frame boundary, never a byte of the next frame, and what it has         *)
(* delivered is what the bytes read so far are when split into frames of   *)
(* 101 bytes: the records of the data frames in order, and the end of the  *)
(* stream if and only if a terminator is among them.                       *)
(***************************************************************************)
\* The number of bytes that node n has read of what p has written to it.
Consumed(p, n) == Len(sent[<<p, n>>]) - Len(stream[<<p, n>>])

\* The records the reader of connection k of node n has delivered, in a
\* node of one inbound connection.
DeliveredOn(n, k) == receivedRecords[n] \o nodeChannels[n][k].val

C11_ChunkingDoesNotMatter ==
    \A n \in Nodes : \A k \in DOMAIN clientConnections[n] :
        LET p == clientConnections[n][k]
            whole == Consumed(p, n) - (Consumed(p, n) % FrameSize)
            frames == FramesIn(SubSeq(sent[<<p, n>>], 1, whole))
        IN  /\ recvData[n][k] = SubSeq(sent[<<p, n>>], whole + 1, Consumed(p, n))
            /\ Len(clientConnections[n]) = 1 =>
                  /\ DeliveredOn(n, k) = RecordsIn(frames)
                  /\ nodeChannels[n][k].closed
                        <=> \E i \in DOMAIN frames : IsTerminator(frames[i])

\* The reader has delivered a record and holds all but the last byte of
\* the next frame: its next read asks for one byte.
C11_Witness ==
    /\ numServers = 2
    /\ clientConnections[0] = << 1 >>
    /\ Len(receivedRecords[0]) = 1
    /\ Len(recvData[0][1]) = FrameSize - 1
    /\ stream[<<1, 0>>] # <<>>

(***************************************************************************)
(* C12.  A reader whose connection carries k data frames and then a        *)
(* terminator has, once it has closed its channel, delivered exactly the   *)
(* records of the k data frames, in order, and nothing else: not the       *)
(* payload of the terminator, and nothing after the close.  It has read    *)
(* the whole stream and the process has not met an error.                  *)
(***************************************************************************)
C12_ClosedAfterKRecords ==
    \A n \in Nodes : \A k \in DOMAIN clientConnections[n] :
        LET p == clientConnections[n][k]
            fs == FramesSent(p, n)
        IN  nodeChannels[n][k].closed =>
               /\ nodeChannels[n][k].val = <<>>
               /\ recvData[n][k] = <<>>
               /\ stream[<<p, n>>] = <<>>
               /\ fs # <<>> /\ IsTerminator(fs[Len(fs)])
               /\ pc[n] # "fatal"
               /\ Len(clientConnections[n]) = 1 =>
                     /\ receivedRecords[n] = RecordsIn(fs)
                     /\ Len(receivedRecords[n]) = Len(fs) - 1

C12_NothingAfterClose ==
    \A n \in Nodes : \A k \in DOMAIN nodeChannels[n] :
        nodeChannels[n][k].closed =>
            /\ nodeChannels'[n][k] = nodeChannels[n][k]
            /\ recvData'[n][k] = recvData[n][k]
            /\ Len(nodeChannels[n]) = 1 => receivedRecords'[n] = receivedRecords[n]

C12_ReaderDeliversKThenCloses ==
    /\ []C12_ClosedAfterKRecords
    /\ [][C12_NothingAfterClose]_vars

\* The reader of node 0 has closed its channel after two data frames, and
\* the collector has taken both records.
C12_Witness ==
    /\ numServers = 2
    /\ clientConnections[0] = << 1 >>
    /\ nodeChannels[0][1].closed
    /\ Len(FramesSent(1, 0)) = 3
    /\ Len(receivedRecords[0]) = 2

(***************************************************************************)
(* C13.  A node never has more than N-1 accepted connections, and has      *)
(* exactly N-1 once its accept loop has ended.  Every node dials every     *)
(* other node once: a peer has at most one connection at a node, accepted  *)
(* or waiting to be, so the accepted connections of a node whose accept    *)
(* loop has ended are those of its N-1 peers, one each; and a node has     *)
(* one outbound connection to each peer once its dial loop has ended.      *)
(***************************************************************************)
\* The connections dialed to node n: those accepted, then those waiting.
Inbound(n) == clientConnections[n] \o backlog[n]

TimesIn(sq, x) == Cardinality({ i \in DOMAIN sq : sq[i] = x })

C13_OneConnectionPerPeer ==
    \A n \in Nodes :
        /\ Len(clientConnections[n]) <= numServers - 1
        /\ accPc[n] = "done" =>
              /\ Len(clientConnections[n]) = numServers - 1
              /\ Range(clientConnections[n]) = Peers(n)
        /\ TimesIn(Inbound(n), n) = 0
        /\ \A p \in Peers(n) :
              TimesIn(Inbound(n), p) = (IF n \in connections[p] THEN 1 ELSE 0)
        /\ connections[n] \subseteq Peers(n)
        /\ pc[n] \notin {"init", "dial"} => connections[n] = Peers(n)

\* The accept loop of node 0 of three has ended, with the connection of
\* node 2 accepted before that of node 1.
C13_Witness ==
    /\ numServers = 3
    /\ accPc[0] = "done"
    /\ clientConnections[0] = << 2, 1 >>

(***************************************************************************)
(* C14.  The collector of a node is started once, by the accept loop as it *)
(* ends, and signals the wait group once: the counter is 1 from            *)
(* waitGroup.Add(1) until the collector's Done and 0 after it, never       *)
(* below; a collector that has finished is not started again; and the      *)
(* collector of a node whose run has completed has signalled.              *)
(***************************************************************************)
C14_CounterNotNegative ==
    \A n \in Nodes :
        /\ waitGroup[n] \in {0, 1}
        /\ colPc[n] # "none" => accPc[n] = "done"
        /\ colPc[n] = "run" => waitGroup[n] = 1
        /\ colPc[n] = "done" => waitGroup[n] = 0
        /\ pc[n] = "done" => colPc[n] = "done"

C14_StartedAndSignalledOnce ==
    \A n \in Nodes :
        /\ colPc'[n] # colPc[n] =>
              \/ colPc[n] = "none" /\ colPc'[n] = "run" /\ accPc[n] = "loop"
              \/ colPc[n] = "run" /\ colPc'[n] = "done"
        /\ colPc[n] # "none" => colIdx'[n] >= colIdx[n]
        /\ waitGroup'[n] < waitGroup[n] =>
              /\ waitGroup'[n] = waitGroup[n] - 1
              /\ colPc[n] = "run"
              /\ colPc'[n] = "done"

C14_BarrierIsOneShot ==
    /\ []C14_CounterNotNegative
    /\ [][C14_StartedAndSignalledOnce]_vars

\* Both nodes of a cluster of two have completed their run, each after the
\* one signal of its collector.
C14_Witness ==
    /\ numServers = 2
    /\ \A n \in Nodes : pc[n] = "done" /\ colPc[n] = "done" /\ waitGroup[n] = 0

(***************************************************************************)
(* C15.  The data frame that the dispatch loop writes for a record is      *)
(* decoded by the reader into one record, whose key and value are those    *)
(* of the record written, byte for byte; the channel is not closed.        *)
(***************************************************************************)
C15_FrameRoundTrip ==
    res # <<>> =>
        /\ ~res.closed
        /\ res.val = << arg.rec >>
        /\ Len(res.val[1].Key) = 10
        /\ Len(res.val[1].Value) = 90

\* A record of 0xFF bytes has gone through a frame.
C15_Witness ==
    /\ res # <<>>
    /\ arg.rec.Key = [i \in 1 .. 10 |-> 255]
    /\ arg.rec.Value = [i \in 1 .. 90 |-> 255]
    /\ res.val = << arg.rec >>

(***************************************************************************)
(* C16.  With a transport of finite capacity, in a run in which every node *)
(* has started and no I/O error occurs, every node in the end has written  *)
(* its terminators, passed its barrier and written its output.             *)
(***************************************************************************)
C16_EveryNodeCompletes ==
    <>(\A n \in Nodes :
          /\ pc[n] = "done"
          /\ termDone[n] = Peers(n)
          /\ BarrierFired(n))

(***************************************************************************)
(* C17.  receivedRecords changes only by the collector, while it runs,     *)
(* appending the record it receives from the channel it is draining; main  *)
(* reads receivedRecords only when the collector has finished, and while   *)
(* main merges or writes, the collector has finished and no channel holds  *)
(* a record.                                                               *)
(***************************************************************************)
C17_MainReadsAfterCollector ==
    \A n \in Nodes :
        Merging(n) =>
            /\ colPc[n] = "done"
            /\ \A k \in DOMAIN nodeChannels[n] : nodeChannels[n][k].val = <<>>

C17_CollectorAppends ==
    \A n \in Nodes :
        /\ receivedRecords'[n] # receivedRecords[n] =>
              /\ colPc[n] = "run" /\ colPc'[n] = "run"
              /\ colIdx[n] \in DOMAIN nodeChannels[n]
              /\ nodeChannels[n][colIdx[n]].val # <<>>
              /\ receivedRecords'[n] =
                    Append(receivedRecords[n], nodeChannels[n][colIdx[n]].val[1])
              /\ nodeChannels'[n][colIdx[n]].val = <<>>
              /\ pc[n] \notin {"emit", "done"} /\ pc'[n] = pc[n]
        /\ records'[n] # records[n] =>
              /\ colPc[n] = "done"
              /\ receivedRecords'[n] = receivedRecords[n]

C17_SingleWriterThenReader ==
    /\ []C17_MainReadsAfterCollector
    /\ [][C17_CollectorAppends]_vars

\* main of node 0 of three nodes has merged the two records its collector
\* appended.
C17_Witness ==
    /\ numServers = 3
    /\ pc[0] = "emit"
    /\ Len(receivedRecords[0]) = 2
    /\ Len(records[0]) >= 2

(***************************************************************************)
(* C18.  No record is appended to receivedRecords, and the collector does  *)
(* not run, while fewer than N-1 connections have been accepted.  What     *)
(* the collector has appended is, in the accept order of the connections,  *)
(* all the records of the peers whose channels it has finished with, in    *)
(* the order each peer sent them, then the first records of the peer whose *)
(* channel it is draining; when the barrier has fired it is the records of *)
(* every peer, in accept order.                                            *)
(***************************************************************************)
RECURSIVE SentInAcceptOrder(_, _)
\* The records of the data frames written to n by the peers of its first k
\* accepted connections, in the order of the connections.
SentInAcceptOrder(n, k) ==
    IF k = 0 THEN <<>>
    ELSE SentInAcceptOrder(n, k - 1) \o RecordsIn(FramesSent(clientConnections[n][k], n))

IsPrefix(a, b) == Len(a) <= Len(b) /\ a = SubSeq(b, 1, Len(a))

C18_CollectedInAcceptOrder ==
    \A n \in Nodes :
        /\ (receivedRecords[n] # <<>> \/ colPc[n] # "none") =>
              Len(clientConnections[n]) = numServers - 1
        /\ colPc[n] = "run" /\ colIdx[n] <= Len(nodeChannels[n]) =>
              /\ IsPrefix(SentInAcceptOrder(n, colIdx[n] - 1), receivedRecords[n])
              /\ IsPrefix(receivedRecords[n], SentInAcceptOrder(n, colIdx[n]))
        /\ (BarrierFired(n) \/ (colPc[n] = "run" /\ colIdx[n] > Len(nodeChannels[n]))) =>
              receivedRecords[n] = SentInAcceptOrder(n, numServers - 1)

\* The barrier of node 0 has fired; it accepted the connection of node 2
\* before that of node 1, and holds the record of node 2 before the two of
\* node 1.
C18_Witness ==
    /\ numServers = 3
    /\ BarrierFired(0)
    /\ clientConnections[0] = << 2, 1 >>
    /\ receivedRecords[0] = OrderShard(2, 1) \o OrderShard(1, 2)

(***************************************************************************)
(* C19.  The dispatch of a record whose key belongs to the node itself     *)
(* appends the record to ownRecords and writes nothing: every connection   *)
(* holds the bytes it held.  The dispatch of a record whose key belongs to *)
(* another node appends the record's data frame to the connection to that  *)
(* node, writes nothing on any other connection, and leaves ownRecords as  *)
(* it was.                                                                 *)
(***************************************************************************)
\* The record at the read position of node n's input.
RecordAt(n) ==
    Record(SubSeq(inputFile[n], inOff[n] + 1, inOff[n] + 10),
           SubSeq(inputFile[n], inOff[n] + 11, inOff[n] + 100))

C19_DispatchEffect ==
    \A n \in Nodes :
        inOff'[n] # inOff[n] =>
            LET rec == RecordAt(n)
                d == Owner(rec.Key, PowerBelow(numServers))
            IN  IF d = n
                THEN /\ ownRecords'[n] = Append(ownRecords[n], rec)
                     /\ sent' = sent
                     /\ stream' = stream
                ELSE /\ ownRecords'[n] = ownRecords[n]
                     /\ sent' = [sent EXCEPT ![<<n, d>>] = @ \o << 0 >> \o rec.Key \o rec.Value]
                     /\ stream' = [stream EXCEPT ![<<n, d>>] = @ \o << 0 >> \o rec.Key \o rec.Value]

C19_LocalRecordNoWrite == [][C19_DispatchEffect]_vars

\* Node 1 of two has dispatched two records: it has kept one and written
\* the frame of the other to node 0.
C19_Witness ==
    /\ numServers = 2
    /\ pc[1] = "read"
    /\ inOff[1] = 200
    /\ Len(ownRecords[1]) = 1
    /\ Len(sent[<<1, 0>>]) = FrameSize

(***************************************************************************)
(* C20.  Whatever the reads of the input return, the records that the      *)
(* read loop has dispatched are the first chunks of 100 bytes of the file, *)
(* in order, and all its chunks when the loop has ended.                   *)
(***************************************************************************)
\* The file split into consecutive chunks of 100 bytes: a key of 10 bytes
\* and a value of 90.
ChunksOf(f) ==
    [i \in 1 .. (Len(f) \div 100) |->
        Record(SubSeq(f, 100 * (i - 1) + 1, 100 * (i - 1) + 10),
               SubSeq(f, 100 * (i - 1) + 11, 100 * i))]

C20_RecordsAreFileChunks ==
    \A n \in Nodes :
        /\ IsPrefix(ownRecords[n], ChunksOf(inputFile[n]))
        /\ pc[n] \in {"wait", "emit", "done"} => ownRecords[n] = ChunksOf(inputFile[n])

=============================================================================
